---- MODULE Spec2Model ----
(***************************************************************************)
(* Model of the Thematic Coder application (src/index.tsx): the App        *)
(* component (codebook store, active codebook, result set), the            *)
(* CodebookPage, the AnalysisPage with its classification runs, its       *)
(* result table and its CSV export, the ThemeSuggestionModal approval      *)
(* workflow, and the report text and chat of the ReportPage.               *)
(*                                                                         *)
(* A JavaScript string is a sequence of one-character strings, so that     *)
(* trim(), toLowerCase(), split() and the CSV scanner are computed as the  *)
(* code computes them.                                                     *)
(***************************************************************************)
EXTENDS Integers, Sequences, FiniteSets, TLC

VARIABLES
    currentPage,            \* App: 'codebook' | 'analysis' | 'report'
    apiKey,                 \* App: TRUE when an API key is set (ai # null)
    codebooks,              \* App: codebook name -> sequence of Theme
    activeCodebook,         \* App: name of the active codebook, or ''
    results,                \* App: the ResultSet (sequence of CodingResult)
    reportContent,          \* App
    chatHistory,            \* App
    isDeleteModalOpen,      \* CodebookPage
    cbError,                \* CodebookPage: error
    pendingReads,           \* CodebookPage: FileReader reads not yet loaded
    isLoading,              \* AnalysisPage: the busy flag
    error,                  \* AnalysisPage
    uploadedData,           \* AnalysisPage
    dataHeaders,            \* AnalysisPage
    responseColumn,         \* AnalysisPage
    isConfirmModalOpen,     \* AnalysisPage
    isSuggestionModalOpen,  \* AnalysisPage
    suggestedThemes,        \* AnalysisPage: the suggestion queue
    pendingResults,         \* AnalysisPage: held regular results
    analysisMode,           \* AnalysisPage: 'replace' | 'append' | null
    processedSuggestions,   \* ThemeSuggestionModal: approval records
    runs,                   \* the runAnalysis calls issued so far (closures)
    last,                   \* what the step just taken did (history)
    abandoned,              \* runs whose approval dialog was closed (history)
    served,                 \* records returned by the service so far (history)
    edits,                  \* toggles and edits made so far (history)
    showLowConfidenceOnly,  \* AnalysisPage: the low-confidence filter
    isChatLoading,          \* ReportPage
    asks,                   \* ReportPage: the chat calls issued
    csv                     \* a table or field given to the export serializer

appVars == <<currentPage, apiKey, codebooks, activeCodebook, results,
             reportContent, chatHistory>>
cbVars == <<isDeleteModalOpen, cbError, pendingReads>>
dataVars == <<uploadedData, dataHeaders, responseColumn>>
modalVars == <<isConfirmModalOpen, isSuggestionModalOpen>>
queueVars == <<suggestedThemes, pendingResults, analysisMode,
               processedSuggestions>>
anVars == <<isLoading, error, dataVars, modalVars, queueVars>>
hist == <<abandoned, served, edits>>
rpVars == <<isChatLoading, asks>>
viewVars == <<showLowConfidenceOnly, rpVars>>
vars == <<appVars, cbVars, anVars, runs, last, hist, viewVars, csv>>

----------------------------------------------------------------------------
(* Bounds *)

MaxRuns == 2        \* classification runs issued in one behaviour
MaxRecords == 2     \* records the service returns in one behaviour
MaxThemes == 2      \* categories in one codebook
MaxReads == 1       \* bulk-import file reads pending at once
MaxEdits == 1       \* toggles and field edits made in one behaviour
MaxField == 3       \* characters of a field given to escapeCsvField
MaxAsks == 1        \* chat calls issued in one behaviour
MaxLines == 3       \* data lines of a text given to parseCsv
MaxHeaders == 3     \* headers of a list given to the column detection

----------------------------------------------------------------------------
(* Strings *)

EmptyStr == <<>>
Undefined == <<"undefined">>       \* the JavaScript value undefined
Null == <<"null">>                 \* the JavaScript value null

Uppers == <<"A","B","C","D","E","F","G","H","I","J","K","L","M",
            "N","O","P","Q","R","S","T","U","V","W","X","Y","Z">>
Lowers == <<"a","b","c","d","e","f","g","h","i","j","k","l","m",
            "n","o","p","q","r","s","t","u","v","w","x","y","z">>

LowerChar(c) ==
    IF \E i \in 1..26 : Uppers[i] = c
    THEN Lowers[CHOOSE i \in 1..26 : Uppers[i] = c]
    ELSE c

toLowerCase(s) == [i \in 1..Len(s) |-> LowerChar(s[i])]

IsSpace(c) == c \in {" ", "\t", "\n", "\r"}

RECURSIVE trimStart(_)
trimStart(s) ==
    IF s # <<>> /\ IsSpace(Head(s)) THEN trimStart(Tail(s)) ELSE s

RECURSIVE trimEnd(_)
trimEnd(s) ==
    IF s # <<>> /\ IsSpace(s[Len(s)])
    THEN trimEnd(SubSeq(s, 1, Len(s) - 1))
    ELSE s

trim(s) == trimEnd(trimStart(s))

includes(s, t) ==
    \E i \in 1..(Len(s) - Len(t) + 1) : SubSeq(s, i, i + Len(t) - 1) = t

\* s.split(c) for a one-character separator c
RECURSIVE splitFrom(_, _, _, _, _)
splitFrom(s, c, i, cur, acc) ==
    IF i > Len(s) THEN Append(acc, cur)
    ELSE IF s[i] = c THEN splitFrom(s, c, i + 1, <<>>, Append(acc, cur))
    ELSE splitFrom(s, c, i + 1, Append(cur, s[i]), acc)

split(s, c) == splitFrom(s, c, 1, <<>>, <<>>)

\* parts.join(c)
RECURSIVE join(_, _)
join(parts, c) ==
    IF parts = <<>> THEN <<>>
    ELSE IF Len(parts) = 1 THEN parts[1]
    ELSE parts[1] \o <<c>> \o join(Tail(parts), c)

\* csvText.split(/\r\n?|\n/)
RECURSIVE splitLinesFrom(_, _, _, _)
splitLinesFrom(s, i, cur, acc) ==
    IF i > Len(s) THEN Append(acc, cur)
    ELSE IF s[i] = "\r" /\ i < Len(s) /\ s[i + 1] = "\n"
         THEN splitLinesFrom(s, i + 2, <<>>, Append(acc, cur))
    ELSE IF s[i] \in {"\r", "\n"}
         THEN splitLinesFrom(s, i + 1, <<>>, Append(acc, cur))
    ELSE splitLinesFrom(s, i + 1, Append(cur, s[i]), acc)

splitLines(s) == splitLinesFrom(s, 1, <<>>, <<>>)

Map(s, F(_)) == [i \in 1..Len(s) |-> F(s[i])]
Range(s) == {s[i] : i \in 1..Len(s)}

----------------------------------------------------------------------------
(* Tabular parser: parseCsv inside handleResponseFileUpload *)

\* A row is a JavaScript object: its keys in insertion order with their values.
RowGet(row, key) ==
    IF \E i \in 1..Len(row) : row[i].k = key
    THEN row[CHOOSE i \in 1..Len(row) : row[i].k = key].v
    ELSE Undefined

RowHas(row, key) == \E i \in 1..Len(row) : row[i].k = key

RowSet(row, key, val) ==
    IF RowHas(row, key)
    THEN [i \in 1..Len(row) |->
            IF row[i].k = key THEN [k |-> key, v |-> val] ELSE row[i]]
    ELSE Append(row, [k |-> key, v |-> val])

UndefinedRow == <<[k |-> Undefined, v |-> Undefined]>>

RECURSIVE parseLineFrom(_, _, _, _, _)
parseLineFrom(line, i, result, field, inQuotes) ==
    IF i > Len(line) THEN Append(result, field)
    ELSE IF inQuotes
         THEN IF line[i] = "\""
              THEN IF i + 1 <= Len(line) /\ line[i + 1] = "\""
                   THEN parseLineFrom(line, i + 2, result,
                                      Append(field, "\""), TRUE)
                   ELSE parseLineFrom(line, i + 1, result, field, FALSE)
              ELSE parseLineFrom(line, i + 1, result,
                                 Append(field, line[i]), TRUE)
         ELSE IF line[i] = ","
              THEN parseLineFrom(line, i + 1, Append(result, field),
                                 <<>>, FALSE)
              ELSE IF line[i] = "\""
                   THEN parseLineFrom(line, i + 1, result, field, TRUE)
                   ELSE parseLineFrom(line, i + 1, result,
                                      Append(field, line[i]), FALSE)

parseLine(line) == parseLineFrom(line, 1, <<>>, <<>>, FALSE)

\* The row with the columns that have a value only
RECURSIVE buildRow_NoPadding(_, _, _, _)
buildRow_NoPadding(headers, values, index, row) ==
    IF index > Len(headers) \/ index > Len(values) THEN row
    ELSE buildRow_NoPadding(headers, values, index + 1,
                            RowSet(row, headers[index], values[index]))

\* headers.forEach((header, index) => row[header] = values[index] || '')
RECURSIVE buildRow(_, _, _, _)
buildRow(headers, values, index, row) ==
    IF index > Len(headers) THEN row
    ELSE buildRow(headers, values, index + 1,
                  RowSet(row, headers[index],
                         IF index <= Len(values) THEN values[index]
                         ELSE EmptyStr))

FormatError == "CSV must have a header row and at least one data row."

parseCsv(csvText) ==
    LET lines == splitLines(trim(csvText))
    IN  IF Len(lines) < 2
        THEN [ok |-> FALSE, message |-> FormatError,
              headers |-> <<>>, data |-> <<>>]
        ELSE LET headers == parseLine(lines[1])
                 NonBlank(line) == trim(line) # <<>>
                 MakeRow(line) == buildRow(headers, parseLine(line), 1, <<>>)
             IN  [ok |-> TRUE, message |-> "",
                  headers |-> headers,
                  data |-> Map(SelectSeq(Tail(lines), NonBlank), MakeRow)]

\* Column role detector
keywords == << <<"r","e","s","p","o","n","s","e">>,
               <<"c","o","m","m","e","n","t">>,
               <<"f","e","e","d","b","a","c","k">>,
               <<"s","u","g","g","e","s","t","i","o","n">>,
               <<"t","e","x","t">> >>

\* The detection with the header compared as it is written
HasKeyword_CaseSensitive(header) ==
    \E j \in 1..Len(keywords) : includes(header, keywords[j])

HasKeyword(header) ==
    \E j \in 1..Len(keywords) : includes(toLowerCase(header), keywords[j])

detectColumn(headers) ==
    IF \E i \in 1..Len(headers) : HasKeyword(headers[i])
    THEN headers[CHOOSE i \in 1..Len(headers) :
                    /\ HasKeyword(headers[i])
                    /\ \A j \in 1..(i - 1) : ~HasKeyword(headers[j])]
    ELSE EmptyStr

----------------------------------------------------------------------------
(* String order used by Array.prototype.sort (UTF-16 code units) *)

CodeOrder == <<"\t", "\n", "\r", " ", "\"", ",",
               "0","1","2","3","4","5","6","7","8","9",
               "A","B","C","D","E","F","G","H","I","J","K","L","M",
               "N","O","P","Q","R","S","T","U","V","W","X","Y","Z",
               "a","b","c","d","e","f","g","h","i","j","k","l","m",
               "n","o","p","q","r","s","t","u","v","w","x","y","z">>

CharCode(c) == CHOOSE i \in 1..Len(CodeOrder) : CodeOrder[i] = c

RECURSIVE StrLess(_, _)
StrLess(s, t) ==
    IF t = <<>> THEN FALSE
    ELSE IF s = <<>> THEN TRUE
    ELSE IF Head(s) = Head(t) THEN StrLess(Tail(s), Tail(t))
    ELSE CharCode(Head(s)) < CharCode(Head(t))

\* Object.keys(cbs).sort()[0] || ''
firstSorted(names) ==
    IF names = {} THEN EmptyStr
    ELSE CHOOSE n \in names : \A m \in names \ {n} : StrLess(n, m)

----------------------------------------------------------------------------
(* Literals *)

Uncategorized == <<"U","n","c","a","t","e","g","o","r","i","z","e","d">>
Positive == <<"P","o","s","i","t","i","v","e">>
Negative == <<"N","e","g","a","t","i","v","e">>
Neutral == <<"N","e","u","t","r","a","l">>

Theme(name, description, src) ==
    [name |-> name, description |-> description, src |-> src]

\* Inputs the user can type or upload (bounded)
CodebookNameInputs == { <<"P">>, <<" ", "P">>, <<"Q">>, <<" ">> }
ThemeNameInputs == { <<"A">>, <<"a", " ">>, <<" ">> }
ThemeDescInputs == { <<"x">>, <<>> }
ImportTexts == { <<"A", ",", "x", "\n", "a", ",", "y">>,
                 <<"N", ",", "z", "\n", "n", "o">> }
SavedStores == { [saved |-> << >>, active |-> Null],
                 [saved |-> [n \in { <<"P">> } |-> <<Theme(<<"A">>, <<"x">>, 0)>>],
                  active |-> Null],
                 [saved |-> [n \in { <<"P">> } |-> <<Theme(<<"A">>, <<"x">>, 0)>>],
                  active |-> <<"Z">>] }

NullMode == "null"                 \* analysisMode === null

\* No table has been given to the serializer
NoTable == [kind |-> "none", stage |-> "none", headers |-> <<>>,
            rows |-> <<>>, field |-> EmptyStr, text |-> EmptyStr,
            parsed |-> <<>>, fields |-> <<>>]

NoEvent == [kind |-> "none", rid |-> 0, live |-> FALSE, mode |-> NullMode,
            batch |-> <<>>, newResults |-> <<>>, suggestions |-> <<>>,
            regularResults |-> <<>>, prevResults |-> <<>>,
            prevThemes |-> <<>>, records |-> <<>>, newThemes |-> <<>>,
            failure |-> "", pending |-> <<>>, errorSet |-> Null,
            book |-> EmptyStr, name |-> EmptyStr, index |-> 0,
            shown |-> 0, prevReport |-> EmptyStr, prevChat |-> <<>>,
            data |-> <<>>,
            column |-> EmptyStr,
            prevData |-> << <<>>, <<>>, <<>> >>, text |-> EmptyStr]

----------------------------------------------------------------------------
(* App *)

\* const activeThemes = codebooks[activeCodebook] || []
ThemesOf(cbs, name) == IF name \in DOMAIN cbs THEN cbs[name] ELSE <<>>
activeThemes == ThemesOf(codebooks, activeCodebook)

\* { ...prevCodebooks, [name]: themes }
WithBook(cbs, name, themes) ==
    [n \in DOMAIN cbs \cup {name} |-> IF n = name THEN themes ELSE cbs[n]]

\* The page components' initial state (a component is mounted afresh each
\* time its page is entered, and its state is discarded when it is left).
AnalysisPageInit ==
    /\ isLoading' = FALSE
    /\ error' = Null
    /\ uploadedData' = <<>>
    /\ dataHeaders' = <<>>
    /\ responseColumn' = EmptyStr
    /\ isConfirmModalOpen' = FALSE
    /\ isSuggestionModalOpen' = FALSE
    /\ suggestedThemes' = <<>>
    /\ pendingResults' = <<>>
    /\ analysisMode' = NullMode
    /\ processedSuggestions' = <<>>
    /\ showLowConfidenceOnly' = FALSE

\* useState initialisers of ReportPage
ReportPageInit ==
    /\ isChatLoading' = FALSE

\* A modal overlay covers the page: while one is open the controls beneath
\* it (page controls, navigation, settings) cannot be clicked.
NoModalOpen ==
    ~isDeleteModalOpen /\ ~isConfirmModalOpen /\ ~isSuggestionModalOpen

\* useState initialisers of App
activeCodebookInit(saved, savedActive) ==
    IF savedActive # Null /\ savedActive # EmptyStr
       /\ savedActive \in DOMAIN saved
    THEN savedActive
    ELSE firstSorted(DOMAIN saved)

\* The state after App is constructed and page p is rendered
Loaded(p) ==
    /\ currentPage = p
    /\ apiKey \in BOOLEAN
    /\ \E st \in SavedStores :
          /\ codebooks = st.saved
          /\ activeCodebook = activeCodebookInit(st.saved, st.active)
    /\ results = <<>>
    /\ reportContent = EmptyStr
    /\ chatHistory = <<>>
    /\ isDeleteModalOpen = FALSE
    /\ cbError = Null
    /\ pendingReads = {}
    /\ isLoading = FALSE
    /\ error = Null
    /\ uploadedData = <<>>
    /\ dataHeaders = <<>>
    /\ responseColumn = EmptyStr
    /\ isConfirmModalOpen = FALSE
    /\ isSuggestionModalOpen = FALSE
    /\ suggestedThemes = <<>>
    /\ pendingResults = <<>>
    /\ analysisMode = NullMode
    /\ edits = 0
    /\ processedSuggestions = <<>>
    /\ runs = <<>>
    /\ last = NoEvent
    /\ abandoned = {}
    /\ served = 0
    /\ showLowConfidenceOnly = FALSE
    /\ isChatLoading = FALSE
    /\ asks = <<>>

\* useState<Page>('codebook')
Init == Loaded("codebook") /\ csv = NoTable

\* Leaving a page unmounts its component: closures of the old instance keep
\* running, but their calls to the instance's state setters do nothing.
StaleRuns(rs) == [i \in 1..Len(rs) |-> [rs[i] EXCEPT !.live = FALSE]]
StaleReads(rd) == {[r EXCEPT !.live = FALSE] : r \in rd}
StaleAsks(as) == [i \in 1..Len(as) |-> [as[i] EXCEPT !.live = FALSE]]

\* nav buttons: setCurrentPage(p)
SetCurrentPage(p) ==
    /\ p # currentPage
    /\ NoModalOpen
    /\ p = "analysis" => (Len(activeThemes) # 0 /\ apiKey)
    /\ p = "report" => (Len(results) # 0 /\ apiKey)
    /\ currentPage' = p
    /\ AnalysisPageInit
    /\ runs' = StaleRuns(runs)
    /\ isDeleteModalOpen' = FALSE
    /\ cbError' = Null
    /\ pendingReads' = StaleReads(pendingReads)
    /\ ReportPageInit
    /\ asks' = StaleAsks(asks)
    /\ UNCHANGED csv
    /\ last' = [NoEvent EXCEPT !.kind = "navigate"]
    /\ UNCHANGED <<apiKey, codebooks, activeCodebook, results,
                   reportContent, chatHistory, hist>>

\* ApiKeyModal.handleSave with a non-blank key
handleSave ==
    /\ NoModalOpen
    /\ ~apiKey
    /\ apiKey' = TRUE
    /\ UNCHANGED <<viewVars, csv>>
    /\ last' = [NoEvent EXCEPT !.kind = "key"]
    /\ UNCHANGED <<currentPage, codebooks, activeCodebook, results,
                   reportContent, chatHistory, cbVars, anVars, runs,
                   hist>>

\* ApiKeyModal.handleClear
handleClear ==
    /\ NoModalOpen
    /\ apiKey
    /\ apiKey' = FALSE
    /\ UNCHANGED <<viewVars, csv>>
    /\ last' = [NoEvent EXCEPT !.kind = "key"]
    /\ UNCHANGED <<currentPage, codebooks, activeCodebook, results,
                   reportContent, chatHistory, cbVars, anVars, runs,
                   hist>>

\* The deletion that leaves the report and the chat as they are
handleDeleteCodebook_KeepsReport(codebookNameToDelete) ==
    LET newCodebooks ==
            [n \in DOMAIN codebooks \ {codebookNameToDelete} |-> codebooks[n]]
    IN  /\ codebooks' = newCodebooks
        /\ results' = <<>>
        /\ UNCHANGED <<reportContent, chatHistory>>
        /\ activeCodebook' =
              IF activeCodebook = codebookNameToDelete
              THEN firstSorted(DOMAIN newCodebooks)
              ELSE activeCodebook

\* App.handleDeleteCodebook
handleDeleteCodebook(codebookNameToDelete) ==
    LET newCodebooks ==
            [n \in DOMAIN codebooks \ {codebookNameToDelete} |-> codebooks[n]]
    IN  /\ codebooks' = newCodebooks
        /\ results' = <<>>
        /\ reportContent' = EmptyStr
        /\ chatHistory' = <<>>
        /\ activeCodebook' =
              IF activeCodebook = codebookNameToDelete
              THEN firstSorted(DOMAIN newCodebooks)
              ELSE activeCodebook

\* App.handleSetThemes applied to a function of the previous themes, as seen
\* from a render in which the active codebook was active
handleSetThemes(active, cbs, updated) ==
    IF active = EmptyStr THEN cbs ELSE WithBook(cbs, active, updated)

----------------------------------------------------------------------------
(* CodebookPage *)

OnCodebookPage == currentPage = "codebook" /\ ~isDeleteModalOpen

\* The comparison of names without folding case
HasName_CaseSensitive(themes, name) ==
    \E i \in 1..Len(themes) : themes[i].name = name

HasName(themes, name) ==
    \E i \in 1..Len(themes) : toLowerCase(themes[i].name) = toLowerCase(name)

\* The handler as its code is written: with a blank name, or the name of a
\* codebook of the store, it does nothing.
handleCreateCodebook(newCodebookName) ==
    LET trimmedName == trim(newCodebookName)
    IN  /\ OnCodebookPage
        /\ IF trimmedName # EmptyStr /\ trimmedName \notin DOMAIN codebooks
           THEN /\ codebooks' = WithBook(codebooks, trimmedName, <<>>)
                /\ activeCodebook' = trimmedName
           ELSE UNCHANGED <<codebooks, activeCodebook>>
        /\ UNCHANGED <<viewVars, csv>>
        /\ last' = [NoEvent EXCEPT !.kind = "create", !.name = trimmedName]
        /\ UNCHANGED <<currentPage, apiKey, results, reportContent,
                       chatHistory, cbVars, anVars, runs, hist>>

\* <select> onChange: setActiveCodebook
SelectCodebook(name) ==
    /\ OnCodebookPage
    /\ name \in DOMAIN codebooks
    /\ name # activeCodebook
    /\ activeCodebook' = name
    /\ UNCHANGED <<viewVars, csv>>
    /\ last' = [NoEvent EXCEPT !.kind = "select"]
    /\ UNCHANGED <<currentPage, apiKey, codebooks, results, reportContent,
                   chatHistory, cbVars, anVars, runs, hist>>

handleDeleteSelectedCodebook ==
    /\ OnCodebookPage
    /\ activeCodebook # EmptyStr
    /\ isDeleteModalOpen' = TRUE
    /\ UNCHANGED <<viewVars, csv>>
    /\ last' = [NoEvent EXCEPT !.kind = "askDelete"]
    /\ UNCHANGED <<appVars, cbError, pendingReads, anVars, runs, hist>>

\* DeleteConfirmationModal onClose
CancelDelete ==
    /\ currentPage = "codebook"
    /\ isDeleteModalOpen
    /\ isDeleteModalOpen' = FALSE
    /\ UNCHANGED <<viewVars, csv>>
    /\ last' = [NoEvent EXCEPT !.kind = "cancelDelete"]
    /\ UNCHANGED <<appVars, cbError, pendingReads, anVars, runs, hist>>

handleConfirmDelete ==
    /\ currentPage = "codebook"
    /\ isDeleteModalOpen
    /\ IF activeCodebook # EmptyStr
       THEN handleDeleteCodebook(activeCodebook)
       ELSE UNCHANGED <<codebooks, results, reportContent, chatHistory,
                        activeCodebook>>
    /\ isDeleteModalOpen' = FALSE
    /\ UNCHANGED <<viewVars, csv>>
    /\ last' = [NoEvent EXCEPT !.kind = "delete", !.book = activeCodebook,
                               !.prevResults = results,
                               !.prevReport = reportContent,
                               !.prevChat = chatHistory]
    /\ UNCHANGED <<currentPage, apiKey, cbError, pendingReads, anVars, runs,
                   hist>>

handleAddTheme(newThemeName, newThemeDescription) ==
    /\ OnCodebookPage
    /\ activeCodebook # EmptyStr
    /\ Len(activeThemes) < MaxThemes
    /\ trim(newThemeName) # EmptyStr /\ trim(newThemeDescription) # EmptyStr
    /\ IF HasName(activeThemes, trim(newThemeName))
       THEN /\ cbError' = <<"Theme already exists.">>
            /\ UNCHANGED codebooks
       ELSE /\ cbError' = Null
            /\ codebooks' = handleSetThemes(activeCodebook, codebooks,
                   Append(activeThemes,
                          Theme(trim(newThemeName),
                                trim(newThemeDescription), 0)))
    /\ UNCHANGED <<viewVars, csv>>
    /\ last' = [NoEvent EXCEPT !.kind = "addTheme",
                               !.name = trim(newThemeName),
                               !.prevThemes = activeThemes]
    /\ UNCHANGED <<currentPage, apiKey, activeCodebook, results,
                   reportContent, chatHistory, isDeleteModalOpen,
                   pendingReads, anVars, runs, hist>>

handleRemoveTheme(index) ==
    /\ OnCodebookPage
    /\ activeCodebook # EmptyStr
    /\ index \in 1..Len(activeThemes)
    /\ codebooks' = handleSetThemes(activeCodebook, codebooks,
           [i \in 1..(Len(activeThemes) - 1) |->
               IF i < index THEN activeThemes[i] ELSE activeThemes[i + 1]])
    /\ UNCHANGED <<viewVars, csv>>
    /\ last' = [NoEvent EXCEPT !.kind = "removeTheme"]
    /\ UNCHANGED <<currentPage, apiKey, activeCodebook, results,
                   reportContent, chatHistory, cbVars, anVars, runs,
                   hist>>

\* handleFileUpload, lines 511-520: the categories read from the file text
importedThemes(text) ==
    LET HasComma(line) == includes(line, <<",">>)
        lines == SelectSeq(Map(split(text, "\n"), trim), HasComma)
        ToTheme(line) ==
            LET parts == split(line, ",")
            IN  Theme(trim(Head(parts)), trim(join(Tail(parts), ",")), 0)
        Complete(t) == t.name # EmptyStr /\ t.description # EmptyStr
    IN  SelectSeq(Map(lines, ToTheme), Complete)

\* handleFileUpload, lines 522-527: the updater passed to setThemes
mergeImported(prevThemes, newThemes) ==
    LET IsNew(t) == ~HasName(prevThemes, t.name)
    IN  prevThemes \o SelectSeq(newThemes, IsNew)

\* handleFileUpload up to reader.readAsText(file): the read is started with
\* the setThemes of the current render (bound to the active codebook)
handleFileUpload(text) ==
    /\ OnCodebookPage
    /\ activeCodebook # EmptyStr
    /\ Cardinality(pendingReads) < MaxReads
    /\ pendingReads' = pendingReads \cup
           {[book |-> activeCodebook, text |-> text, live |-> TRUE]}
    /\ UNCHANGED <<viewVars, csv>>
    /\ last' = [NoEvent EXCEPT !.kind = "readFile"]
    /\ UNCHANGED <<appVars, isDeleteModalOpen, cbError, anVars, runs,
                   hist>>

\* reader.onload of handleFileUpload
ImportLoaded(read) ==
    /\ read \in pendingReads
    /\ Len(ThemesOf(codebooks, read.book)) + Len(importedThemes(read.text))
          <= MaxThemes
    /\ pendingReads' = pendingReads \ {read}
    /\ codebooks' = handleSetThemes(read.book, codebooks,
           mergeImported(ThemesOf(codebooks, read.book),
                         importedThemes(read.text)))
    /\ cbError' = IF read.live THEN Null ELSE cbError
    /\ UNCHANGED <<viewVars, csv>>
    /\ last' = [NoEvent EXCEPT !.kind = "import", !.book = read.book,
                               !.prevThemes = ThemesOf(codebooks, read.book),
                               !.newThemes = importedThemes(read.text)]
    /\ UNCHANGED <<currentPage, apiKey, activeCodebook, results,
                   reportContent, chatHistory, isDeleteModalOpen, anVars,
                   runs, hist>>

----------------------------------------------------------------------------
(* AnalysisPage *)

OnAnalysisPage == currentPage = "analysis" /\ NoModalOpen

UploadTexts ==
    { <<"i","d",",","t","e","x","t","\n","1",",","o","k","\n","2",",","o","k">>,
      <<"i","d",",","t","e","x","t","\r","\n","7",",","o","k","\n">>,
      <<"i","d">> }

\* The upload whose failed parse leaves the rows of the previous upload
handleResponseFileUpload_KeepsRows(text) ==
    LET parsed == parseCsv(text)
    IN  /\ OnAnalysisPage
        /\ IF parsed.ok
           THEN /\ dataHeaders' = parsed.headers
                /\ uploadedData' = parsed.data
                /\ responseColumn' = detectColumn(parsed.headers)
                /\ error' = Null
           ELSE /\ error' = <<"Error parsing CSV file. ", parsed.message>>
                /\ UNCHANGED <<dataHeaders, uploadedData, responseColumn>>
        /\ UNCHANGED <<viewVars, csv>>
        /\ last' = [NoEvent EXCEPT !.kind = "upload", !.text = text,
                                   !.prevData = dataVars]
        /\ UNCHANGED <<appVars, cbVars, isLoading, modalVars, queueVars,
                       runs, hist>>

\* reader.onload of handleResponseFileUpload.  The handler reads no state of
\* the render that started the read, so the read and its load are one step.
handleResponseFileUpload(text) ==
    LET parsed == parseCsv(text)
    IN  /\ OnAnalysisPage
        /\ IF parsed.ok
           THEN /\ dataHeaders' = parsed.headers
                /\ uploadedData' = parsed.data
                /\ responseColumn' = detectColumn(parsed.headers)
                /\ error' = Null
           ELSE /\ error' = <<"Error parsing CSV file. ", parsed.message>>
                /\ dataHeaders' = <<>>
                /\ uploadedData' = <<>>
                /\ responseColumn' = EmptyStr
        /\ UNCHANGED <<viewVars, csv>>
        /\ last' = [NoEvent EXCEPT !.kind = "upload", !.text = text,
                                   !.prevData = dataVars]
        /\ UNCHANGED <<appVars, cbVars, isLoading, modalVars, queueVars,
                       runs, hist>>

\* <select id="response-column-select"> onChange
SelectResponseColumn(header) ==
    /\ OnAnalysisPage
    /\ Len(uploadedData) > 0
    /\ header \in Range(dataHeaders)
    /\ header # responseColumn
    /\ responseColumn' = header
    /\ UNCHANGED <<viewVars, csv>>
    /\ last' = [NoEvent EXCEPT !.kind = "column"]
    /\ UNCHANGED <<appVars, cbVars, isLoading, error, uploadedData,
                   dataHeaders, modalVars, queueVars, runs, hist>>

handleClearResults ==
    /\ OnAnalysisPage
    /\ Len(results) # 0
    /\ results' = <<>>
    /\ UNCHANGED <<viewVars, csv>>
    /\ last' = [NoEvent EXCEPT !.kind = "clear"]
    /\ UNCHANGED <<currentPage, apiKey, codebooks, activeCodebook,
                   reportContent, chatHistory, cbVars, anVars, runs,
                   hist>>

\* Confidence scores are kept in tenths: 0.7
LOW_CONFIDENCE_THRESHOLD == 7

filteredResults ==
    LET IsLow(r) == r.confidenceScore < LOW_CONFIDENCE_THRESHOLD
    IN  IF ~showLowConfidenceOnly THEN results ELSE SelectSeq(results, IsLow)

\* the filter checkbox: setShowLowConfidenceOnly(e.target.checked)
SetShowLowConfidenceOnly ==
    /\ OnAnalysisPage
    /\ showLowConfidenceOnly' = ~showLowConfidenceOnly
    /\ last' = [NoEvent EXCEPT !.kind = "filter"]
    /\ UNCHANGED <<appVars, cbVars, anVars, runs, hist, rpVars, csv>>

\* The copy of the results with the updated entry moved to the end
updatedResults_MovedLast(rs, originalIndex, field, value) ==
    [i \in 1..Len(rs) |->
        IF i < originalIndex THEN rs[i]
        ELSE IF i < Len(rs) THEN rs[i + 1]
        ELSE [rs[originalIndex] EXCEPT ![field] = value]]

\* updatedResults[originalIndex] = { ...updatedResults[originalIndex],
\*                                   [field]: value }
updatedResults(rs, originalIndex, field, value) ==
    [rs EXCEPT ![originalIndex] = [@ EXCEPT ![field] = value]]

\* The values the cells of a result row offer
CellOptions(field) ==
    IF field = "themeName"
    THEN {activeThemes[i].name : i \in 1..Len(activeThemes)}
            \cup {Uncategorized}
    ELSE {Positive, Negative, Neutral}

handleUpdateResult(indexToUpdate, field, value) ==
    /\ OnAnalysisPage
    /\ edits < MaxEdits
    /\ indexToUpdate \in 1..Len(filteredResults)
    /\ value \in CellOptions(field)
    /\ value # filteredResults[indexToUpdate][field]
    /\ LET originalIndex ==
              CHOOSE i \in 1..Len(results) :
                  /\ results[i] = filteredResults[indexToUpdate]
                  /\ \A j \in 1..(i - 1) :
                        results[j] # filteredResults[indexToUpdate]
       IN  /\ results' = updatedResults(results, originalIndex, field, value)
           /\ last' = [NoEvent EXCEPT !.kind = "update",
                                      !.index = originalIndex,
                                      !.shown = indexToUpdate,
                                      !.prevResults = results]
    /\ edits' = edits + 1
    /\ UNCHANGED <<currentPage, apiKey, codebooks, activeCodebook,
                   reportContent, chatHistory, cbVars, anVars, runs,
                   abandoned, served, viewVars, csv>>

ApiError(message) ==
    <<"An error occurred while communicating with the API. Please try again.\nDetails: ",
      message>>

\* runAnalysis without setAnalysisMode(mode): the dialog's finish would merge
\* under whatever mode an earlier run left behind.
runAnalysis_ModeNotCaptured(mode) ==
    IF responseColumn = EmptyStr
    THEN /\ error' = <<"Please select the column containing the response text.">>
         /\ UNCHANGED <<isLoading, analysisMode, runs>>
    ELSE IF ~apiKey
    THEN /\ error' = ApiError("API key not set.")
         /\ isLoading' = FALSE
         /\ UNCHANGED <<analysisMode, runs>>
    ELSE /\ Len(runs) < MaxRuns
         /\ isLoading' = TRUE
         /\ error' = Null
         /\ UNCHANGED analysisMode
         /\ runs' = Append(runs, [mode |-> mode,
                                  uploadedData |-> uploadedData,
                                  responseColumn |-> responseColumn,
                                  live |-> TRUE, pending |-> TRUE])

\* runAnalysis up to the await: the state it sets and the call it issues.
\* The closure keeps the rows, column and mode of the render it was made in.
runAnalysis(mode) ==
    IF responseColumn = EmptyStr
    THEN /\ error' = <<"Please select the column containing the response text.">>
         /\ UNCHANGED <<isLoading, analysisMode, runs>>
    ELSE IF ~apiKey
    THEN /\ error' = ApiError("API key not set.")
         /\ isLoading' = FALSE
         /\ analysisMode' = mode
         /\ UNCHANGED runs
    ELSE /\ Len(runs) < MaxRuns
         /\ isLoading' = TRUE
         /\ error' = Null
         /\ analysisMode' = mode
         /\ runs' = Append(runs, [mode |-> mode,
                                  uploadedData |-> uploadedData,
                                  responseColumn |-> responseColumn,
                                  live |-> TRUE, pending |-> TRUE])

CodeResponsesEnabled ==
    /\ ~isLoading
    /\ Len(activeThemes) # 0
    /\ Len(uploadedData) # 0
    /\ responseColumn # EmptyStr
    /\ apiKey

\* Code Responses starting the run whatever the ResultSet holds
handleCodeResponses_NoConfirm ==
    /\ OnAnalysisPage
    /\ CodeResponsesEnabled
    /\ runAnalysis("replace")
    /\ UNCHANGED isConfirmModalOpen
    /\ UNCHANGED <<viewVars, csv>>
    /\ last' = [NoEvent EXCEPT !.kind = "code"]
    /\ UNCHANGED <<appVars, cbVars, dataVars, isSuggestionModalOpen,
                   suggestedThemes, pendingResults, processedSuggestions,
                   hist>>

handleCodeResponses ==
    /\ OnAnalysisPage
    /\ CodeResponsesEnabled
    /\ IF Len(results) > 0
       THEN /\ isConfirmModalOpen' = TRUE
            /\ UNCHANGED <<isLoading, error, analysisMode, runs>>
       ELSE /\ runAnalysis("replace")
            /\ UNCHANGED isConfirmModalOpen
    /\ UNCHANGED <<viewVars, csv>>
    /\ last' = [NoEvent EXCEPT !.kind = "code"]
    /\ UNCHANGED <<appVars, cbVars, dataVars, isSuggestionModalOpen,
                   suggestedThemes, pendingResults, processedSuggestions,
                   hist>>

\* AnalysisConfirmationModal onClose
CloseConfirmModal ==
    /\ currentPage = "analysis"
    /\ isConfirmModalOpen
    /\ isConfirmModalOpen' = FALSE
    /\ UNCHANGED <<viewVars, csv>>
    /\ last' = [NoEvent EXCEPT !.kind = "closeConfirm"]
    /\ UNCHANGED <<appVars, cbVars, isLoading, error, dataVars,
                   isSuggestionModalOpen, queueVars, runs, hist>>

handleConfirmAppend ==
    /\ currentPage = "analysis"
    /\ isConfirmModalOpen
    /\ isConfirmModalOpen' = FALSE
    /\ runAnalysis("append")
    /\ UNCHANGED <<viewVars, csv>>
    /\ last' = [NoEvent EXCEPT !.kind = "confirm", !.mode = "append"]
    /\ UNCHANGED <<appVars, cbVars, dataVars, isSuggestionModalOpen,
                   suggestedThemes, pendingResults, processedSuggestions,
                   hist>>

handleConfirmReplace ==
    /\ currentPage = "analysis"
    /\ isConfirmModalOpen
    /\ isConfirmModalOpen' = FALSE
    /\ runAnalysis("replace")
    /\ UNCHANGED <<viewVars, csv>>
    /\ last' = [NoEvent EXCEPT !.kind = "confirm", !.mode = "replace"]
    /\ UNCHANGED <<appVars, cbVars, dataVars, isSuggestionModalOpen,
                   suggestedThemes, pendingResults, processedSuggestions,
                   hist>>

----------------------------------------------------------------------------
(* The classification service and the rest of runAnalysis *)

NoSuggestion == [present |-> FALSE, name |-> Undefined,
                 description |-> Undefined]
Suggestion(name, description) ==
    [present |-> TRUE, name |-> name, description |-> description]

ServiceRecord(originalResponse, themeName, suggestedTheme) ==
    [originalResponse |-> originalResponse, themeName |-> themeName,
     sentiment |-> Positive, confidenceScore |-> 9, reasoning |-> <<"w">>,
     suggestedTheme |-> suggestedTheme]

\* The records a response may carry (bounded)
RecordKinds ==
    { ServiceRecord(<<"o","k">>, <<"A">>, NoSuggestion),
      ServiceRecord(<<"z">>, Uncategorized, Suggestion(<<>>, <<"d">>)),
      ServiceRecord(<<"o","k">>, <<"A">>, Suggestion(<<"N">>, <<"d">>)),
      ServiceRecord(<<"o","k">>, Uncategorized, Suggestion(<<"N">>, <<>>)) }

RECURSIVE SeqsUpTo(_, _)
SeqsUpTo(S, n) ==
    IF n = 0 THEN { <<>> }
    ELSE LET shorter == SeqsUpTo(S, n - 1)
         IN  shorter \cup {Append(q, x) : q \in shorter, x \in S}

Batches == SeqsUpTo(RecordKinds, MaxRecords)

\* Responses with a record of low confidence and a record with a
\* suggestion (of high confidence), for the review of the results
LowRecord ==
    [ServiceRecord(<<"o","k">>, Uncategorized, NoSuggestion)
        EXCEPT !.confidenceScore = 5]
SuggestedRecord ==
    ServiceRecord(<<"o","k">>, <<"A">>, Suggestion(<<"N">>, <<"d">>))

ReviewBatches ==
    { <<LowRecord>>, <<SuggestedRecord>>, <<SuggestedRecord, LowRecord>> }

\* What makes the try block throw: the call rejects, or the decoded
\* response has no results array.
Failures ==
    { [kind |-> "throw", message |-> "Failed to fetch"],
      [kind |-> "noresults",
       message |-> "Cannot read properties of undefined (reading 'map')"] }

Truthy(s) == s \notin {EmptyStr, Undefined, Null}

\* The lookup by position alone
originalDataRow_ByIndex(data, column, originalResponse, index) ==
    IF index <= Len(data) THEN data[index] ELSE UndefinedRow

\* uploadedData.find(d => d[responseColumn] === originalResponse)
\*     || uploadedData[index]
originalDataRow(data, column, originalResponse, index) ==
    IF \E i \in 1..Len(data) : RowGet(data[i], column) = originalResponse
    THEN data[CHOOSE i \in 1..Len(data) :
                 /\ RowGet(data[i], column) = originalResponse
                 /\ \A j \in 1..(i - 1) :
                        RowGet(data[j], column) # originalResponse]
    ELSE IF index <= Len(data) THEN data[index] ELSE UndefinedRow

\* parsedResponse.results.map(...), lines 904-916.  rid and idx identify the
\* record the result was made from (history only).
makeResults(data, column, batch, rid) ==
    [index \in 1..Len(batch) |->
        [themeName |-> batch[index].themeName,
         sentiment |-> batch[index].sentiment,
         confidenceScore |-> batch[index].confidenceScore,
         reasoning |-> batch[index].reasoning,
         suggestedTheme |-> batch[index].suggestedTheme,
         rawData |-> originalDataRow(data, column,
                                     batch[index].originalResponse, index),
         responseColumn |-> column,
         rid |-> rid, idx |-> index]]

\* The suggestions filter testing the name only
isSuggestion_NameOnly(r) ==
    /\ r.suggestedTheme.present
    /\ Truthy(r.suggestedTheme.name)

isSuggestion(r) ==
    /\ r.suggestedTheme.present
    /\ Truthy(r.suggestedTheme.name)
    /\ Truthy(r.suggestedTheme.description)

isRegular(r) ==
    ~r.suggestedTheme.present \/ ~Truthy(r.suggestedTheme.name)

\* The merge with the append branch lost
mergeResults_AlwaysReplace(mode, prev, added) == added

\* mode === 'append' ? [...prev, ...added] : added
mergeResults(mode, prev, added) ==
    IF mode = "append" THEN prev \o added ELSE added

\* The seeding with records that start unapproved
seedSuggestions_Unapproved(suggestions) ==
    [i \in 1..Len(suggestions) |->
        [result |-> suggestions[i],
         isApproved |-> FALSE,
         editedName |-> suggestions[i].suggestedTheme.name,
         editedDescription |-> suggestions[i].suggestedTheme.description]]

\* ThemeSuggestionModal's effect on [isOpen, suggestions]
seedSuggestions(suggestions) ==
    [i \in 1..Len(suggestions) |->
        [result |-> suggestions[i],
         isApproved |-> TRUE,
         editedName |-> suggestions[i].suggestedTheme.name,
         editedDescription |-> suggestions[i].suggestedTheme.description]]

\* The call has settled: the closure is dropped.  The mode of a run whose
\* suggestions opened the dialog is remembered (history only).
FinishRun(rs, rid, opensDialog) ==
    [rs EXCEPT ![rid] = [@ EXCEPT !.pending = FALSE, !.live = FALSE,
                                  !.mode = IF opensDialog THEN @ ELSE NullMode,
                                  !.uploadedData = <<>>,
                                  !.responseColumn = EmptyStr]]

\* runAnalysis after the await, when the response decodes
RunSucceeds(rid, batch) ==
    LET run == runs[rid]
        newResults == makeResults(run.uploadedData, run.responseColumn,
                                  batch, rid)
        suggestions == SelectSeq(newResults, isSuggestion)
        regularResults == SelectSeq(newResults, isRegular)
    IN  /\ rid \in 1..Len(runs)
        /\ run.pending
        /\ served + Len(batch) <= MaxRecords
        /\ served' = served + Len(batch)
        /\ runs' = FinishRun(runs, rid, run.live /\ Len(suggestions) > 0)
        /\ IF Len(suggestions) > 0
           THEN /\ UNCHANGED results
                /\ IF run.live
                   THEN /\ pendingResults' = regularResults
                        /\ suggestedThemes' = suggestions
                        /\ isSuggestionModalOpen' = TRUE
                        /\ processedSuggestions' = seedSuggestions(suggestions)
                   ELSE UNCHANGED <<pendingResults, suggestedThemes,
                                    isSuggestionModalOpen,
                                    processedSuggestions>>
           ELSE /\ results' = mergeResults(run.mode, results, regularResults)
                /\ pendingResults' = IF run.live THEN <<>> ELSE pendingResults
                /\ UNCHANGED <<suggestedThemes, isSuggestionModalOpen,
                               processedSuggestions>>
        /\ IF run.live
           THEN /\ uploadedData' = <<>>
                /\ dataHeaders' = <<>>
                /\ responseColumn' = EmptyStr
                /\ isLoading' = FALSE
           ELSE UNCHANGED <<uploadedData, dataHeaders, responseColumn,
                            isLoading>>
        /\ UNCHANGED <<viewVars, csv>>
        /\ last' = [NoEvent EXCEPT !.kind = "runDone", !.rid = rid,
                                   !.live = run.live, !.mode = run.mode,
                                   !.batch = batch,
                                   !.newResults = newResults,
                                   !.suggestions = suggestions,
                                   !.regularResults = regularResults,
                                   !.data = run.uploadedData,
                                   !.column = run.responseColumn,
                                   !.prevResults = results]
        /\ UNCHANGED <<currentPage, apiKey, codebooks, activeCodebook,
                       reportContent, chatHistory, cbVars, error,
                       isConfirmModalOpen, analysisMode, abandoned, edits>>

\* The catch block with the upload cleared as on success
RunFails_ClearsUpload(rid, failure) ==
    LET run == runs[rid]
    IN  /\ rid \in 1..Len(runs)
        /\ run.pending
        /\ runs' = FinishRun(runs, rid, FALSE)
        /\ IF run.live
           THEN /\ error' = ApiError(failure.message)
                /\ isLoading' = FALSE
                /\ uploadedData' = <<>>
                /\ dataHeaders' = <<>>
                /\ responseColumn' = EmptyStr
           ELSE UNCHANGED <<error, isLoading, dataVars>>
        /\ UNCHANGED <<viewVars, csv>>
        /\ last' = [NoEvent EXCEPT !.kind = "runFailed", !.rid = rid,
                                   !.live = run.live, !.mode = run.mode,
                                   !.failure = failure.message,
                                   !.errorSet = ApiError(failure.message),
                                   !.prevData = dataVars,
                                   !.prevResults = results]
        /\ UNCHANGED <<appVars, cbVars, modalVars, queueVars, hist>>

\* runAnalysis after the await, when the try block throws: catch and finally
RunFails(rid, failure) ==
    LET run == runs[rid]
    IN  /\ rid \in 1..Len(runs)
        /\ run.pending
        /\ runs' = FinishRun(runs, rid, FALSE)
        /\ IF run.live
           THEN /\ error' = ApiError(failure.message)
                /\ isLoading' = FALSE
           ELSE UNCHANGED <<error, isLoading>>
        /\ UNCHANGED <<viewVars, csv>>
        /\ last' = [NoEvent EXCEPT !.kind = "runFailed", !.rid = rid,
                                   !.live = run.live, !.mode = run.mode,
                                   !.failure = failure.message,
                                   !.errorSet = ApiError(failure.message),
                                   !.prevData = dataVars,
                                   !.prevResults = results]
        /\ UNCHANGED <<appVars, cbVars, dataVars, modalVars, queueVars,
                       hist>>

----------------------------------------------------------------------------
(* ThemeSuggestionModal: the approval workflow *)

DialogOpen == currentPage = "analysis" /\ isSuggestionModalOpen

EditedNameInputs == { <<" ", "M", " ">>, <<" ">>, <<"a">> }
EditedDescriptionInputs == { <<>> }

handleToggleApproval(index) ==
    /\ DialogOpen
    /\ index \in 1..Len(processedSuggestions)
    /\ edits < MaxEdits
    /\ edits' = edits + 1
    /\ processedSuggestions' =
          [processedSuggestions EXCEPT ![index].isApproved = ~@]
    /\ UNCHANGED <<viewVars, csv>>
    /\ last' = [NoEvent EXCEPT !.kind = "toggle"]
    /\ UNCHANGED <<appVars, cbVars, isLoading, error, dataVars, modalVars,
                   suggestedThemes, pendingResults, analysisMode, runs,
                   abandoned, served>>

\* the inputs are disabled while the record is not approved
handleFieldChange(index, field, value) ==
    /\ DialogOpen
    /\ index \in 1..Len(processedSuggestions)
    /\ processedSuggestions[index].isApproved
    /\ edits < MaxEdits
    /\ edits' = edits + 1
    /\ processedSuggestions' =
          IF field = "editedName"
          THEN [processedSuggestions EXCEPT ![index].editedName = value]
          ELSE [processedSuggestions EXCEPT ![index].editedDescription = value]
    /\ processedSuggestions' # processedSuggestions
    /\ UNCHANGED <<viewVars, csv>>
    /\ last' = [NoEvent EXCEPT !.kind = "edit"]
    /\ UNCHANGED <<appVars, cbVars, isLoading, error, dataVars, modalVars,
                   suggestedThemes, pendingResults, analysisMode, runs,
                   abandoned, served>>

\* onClose committing the held regular results of the run
CloseSuggestionModal_CommitsHeld ==
    /\ DialogOpen
    /\ isSuggestionModalOpen' = FALSE
    /\ results' = mergeResults(analysisMode, results, pendingResults)
    /\ abandoned' = abandoned \cup {r.rid : r \in Range(suggestedThemes)}
    /\ UNCHANGED <<viewVars, csv>>
    /\ last' = [NoEvent EXCEPT !.kind = "closeDialog"]
    /\ UNCHANGED <<currentPage, apiKey, codebooks, activeCodebook,
                   reportContent, chatHistory, cbVars, isLoading, error,
                   dataVars, isConfirmModalOpen, suggestedThemes,
                   pendingResults, analysisMode, processedSuggestions, runs,
                   served, edits>>

\* ThemeSuggestionModal onClose: setIsSuggestionModalOpen(false)
CloseSuggestionModal ==
    /\ DialogOpen
    /\ isSuggestionModalOpen' = FALSE
    /\ abandoned' = abandoned \cup {r.rid : r \in Range(suggestedThemes)}
    /\ UNCHANGED <<viewVars, csv>>
    /\ last' = [NoEvent EXCEPT !.kind = "closeDialog"]
    /\ UNCHANGED <<appVars, cbVars, isLoading, error, dataVars,
                   isConfirmModalOpen, suggestedThemes, pendingResults,
                   analysisMode, processedSuggestions, runs, served, edits>>

\* The acceptance test without the approval flag
isAccepted_IgnoresApproval(s) ==
    /\ trim(s.editedName) # EmptyStr
    /\ trim(s.editedDescription) # EmptyStr

isAccepted(s) ==
    /\ s.isApproved
    /\ trim(s.editedName) # EmptyStr
    /\ trim(s.editedDescription) # EmptyStr

\* The result named by the edited name as typed
finalResult_Untrimmed(s) ==
    [s.result EXCEPT !.suggestedTheme = NoSuggestion,
                     !.themeName = IF isAccepted(s) THEN s.editedName
                                   ELSE Uncategorized]

\* handleFinish: the result made from one approval record
finalResult(s) ==
    [s.result EXCEPT !.suggestedTheme = NoSuggestion,
                     !.themeName = IF isAccepted(s) THEN trim(s.editedName)
                                   ELSE Uncategorized]

\* handleFinish: the new themes, in record order
finishThemes(records) ==
    LET accepted == SelectSeq(records, isAccepted)
    IN  [i \in 1..Len(accepted) |->
            Theme(trim(accepted[i].editedName),
                  trim(accepted[i].editedDescription),
                  accepted[i].result.rid)]

\* App.handleAddNewThemes
handleAddNewThemes(newThemes) ==
    LET existingThemeNames ==
            {toLowerCase(t.name) : t \in Range(activeThemes)}
        IsUnique(t) == toLowerCase(t.name) \notin existingThemeNames
        uniqueNewThemes == SelectSeq(newThemes, IsUnique)
    IN  IF activeCodebook = EmptyStr \/ Len(uniqueNewThemes) = 0
        THEN codebooks
        ELSE handleSetThemes(activeCodebook, codebooks,
                             activeThemes \o uniqueNewThemes)

\* handleFinish and the onComplete it calls, handleSuggestionsComplete
handleFinish ==
    LET newThemes == finishThemes(processedSuggestions)
        finalResults == pendingResults \o Map(processedSuggestions, finalResult)
    IN  /\ DialogOpen
        /\ codebooks' = handleAddNewThemes(newThemes)
        /\ results' = mergeResults(analysisMode, results, finalResults)
        /\ isSuggestionModalOpen' = FALSE
        /\ suggestedThemes' = <<>>
        /\ pendingResults' = <<>>
        /\ analysisMode' = NullMode
        /\ UNCHANGED <<viewVars, csv>>
        /\ last' = [NoEvent EXCEPT !.kind = "finish",
                                   !.mode = analysisMode,
                                   !.records = processedSuggestions,
                                   !.suggestions = suggestedThemes,
                                   !.pending = pendingResults,
                                   !.newThemes = newThemes,
                                   !.prevThemes = activeThemes,
                                   !.prevResults = results]
        /\ UNCHANGED <<currentPage, apiKey, activeCodebook, reportContent,
                       chatHistory, cbVars, isLoading, error, dataVars,
                       isConfirmModalOpen, processedSuggestions, runs,
                       hist>>

----------------------------------------------------------------------------
(* ReportPage *)

OnReportPage == currentPage = "report"

\* A generateContent call of the page, not yet settled
Ask == [live |-> TRUE, pending |-> TRUE]
SettleAsk(as, i) == [as EXCEPT ![i] = [@ EXCEPT !.pending = FALSE,
                                               !.live = FALSE]]

ReportTexts == { <<"R">> }         \* what the user types as the report
ReplyText == <<"r">>               \* response.text of a chat call
ChatInputs == { <<"q">>, <<" ">> }
AskOutcomes == {"text", "throw"}

\* The report textarea: onChange={(e) => setReportContent(e.target.value)}
EditReport(text) ==
    /\ OnReportPage
    /\ text # reportContent
    /\ reportContent' = text
    /\ last' = [NoEvent EXCEPT !.kind = "editReport"]
    /\ UNCHANGED <<currentPage, apiKey, codebooks, activeCodebook, results,
                   chatHistory, cbVars, anVars, runs, hist, viewVars, csv>>

\* handleSendChat up to the await
handleSendChat(chatInput) ==
    /\ OnReportPage
    /\ trim(chatInput) # EmptyStr /\ ~isChatLoading /\ apiKey
    /\ Len(asks) < MaxAsks
    /\ chatHistory' = Append(chatHistory,
                             [role |-> "user", text |-> chatInput])
    /\ isChatLoading' = TRUE
    /\ asks' = Append(asks, Ask)
    /\ last' = [NoEvent EXCEPT !.kind = "chat"]
    /\ UNCHANGED <<currentPage, apiKey, codebooks, activeCodebook, results,
                   reportContent, cbVars, anVars, runs, hist,
                   showLowConfidenceOnly, csv>>

\* handleSendChat after the await: try, catch and finally
ChatSettles(i, outcome) ==
    /\ i \in 1..Len(asks)
    /\ asks[i].pending
    /\ asks' = SettleAsk(asks, i)
    /\ chatHistory' = Append(chatHistory,
           [role |-> "model",
            text |-> IF outcome = "text" THEN ReplyText
                     ELSE <<"Sorry, an error occurred. Details: ",
                            "Failed to fetch">>])
    /\ isChatLoading' = IF asks[i].live THEN FALSE ELSE isChatLoading
    /\ last' = [NoEvent EXCEPT !.kind = "chatDone", !.live = asks[i].live]
    /\ UNCHANGED <<currentPage, apiKey, codebooks, activeCodebook, results,
                   reportContent, cbVars, anVars, runs, hist,
                   showLowConfidenceOnly, csv>>

----------------------------------------------------------------------------
(* Export serializer: handleDownloadCSV, and the parser applied to its text *)

\* stringField.replace(/"/g, '""')
RECURSIVE doubleQuotes(_)
doubleQuotes(s) ==
    IF s = <<>> THEN <<>>
    ELSE (IF Head(s) = "\"" THEN <<"\"", "\"">> ELSE <<Head(s)>>)
            \o doubleQuotes(Tail(s))

\* /[",\n]/.test(stringField)
needsQuotes(s) == \E i \in 1..Len(s) : s[i] \in {"\"", ",", "\n"}

\* The field wrapped with its quotes left single
escapeCsvField_NoDoubling(field) ==
    IF needsQuotes(field) THEN <<"\"">> \o field \o <<"\"">> ELSE field

escapeCsvField(field) ==
    IF needsQuotes(field)
    THEN <<"\"">> \o doubleQuotes(field) \o <<"\"">>
    ELSE field

\* csvContent of handleDownloadCSV for the headers and the value rows it
\* builds from the ResultSet: the header line, then one line per row
csvContent(headers, rows) ==
    join(<<join(headers, ",")>>
            \o [i \in 1..Len(rows) |->
                    join([j \in 1..Len(rows[i]) |-> escapeCsvField(rows[i][j])],
                         ",")],
         "\n")

\* The tables and fields exported (bounded)
TableHeaders == { << <<"h">> >>, << <<"h">>, <<"k">> >> }
CellValues == { <<"x">>, <<"x", ",", "y">>, <<"\"">>, <<"x", "\n", "y">> }
FieldChars == {"a", " ", ",", "\"", "\n"}
QuotedExample == <<"H","e"," ","s","a","i","d"," ","\"","h","i","\"",",",
                   " ","o","k">>
Fields == SeqsUpTo(FieldChars, MaxField) \cup {QuotedExample}

Table(headers, rows) ==
    [kind |-> "table", stage |-> "input", headers |-> headers, rows |-> rows,
     field |-> EmptyStr, text |-> EmptyStr, parsed |-> <<>>, fields |-> <<>>]
Field(field) ==
    [kind |-> "field", stage |-> "input", headers |-> <<>>, rows |-> <<>>,
     field |-> field, text |-> EmptyStr, parsed |-> <<>>, fields |-> <<>>]

Tables ==
    UNION { {Table(h, r) :
                r \in SeqsUpTo([1..Len(h) -> CellValues], MaxRecords) \ {<<>>}}
            : h \in TableHeaders }

\* handleDownloadCSV: the text of the downloaded file
ExportTable ==
    /\ csv.kind = "table" /\ csv.stage = "input"
    /\ csv' = [csv EXCEPT !.stage = "exported",
                          !.text = csvContent(csv.headers, csv.rows)]
    /\ last' = [NoEvent EXCEPT !.kind = "export"]
    /\ UNCHANGED <<appVars, cbVars, anVars, runs, hist, viewVars>>

\* parseCsv applied to the downloaded text
ParseExported ==
    /\ csv.kind = "table" /\ csv.stage = "exported"
    /\ csv' = [csv EXCEPT !.stage = "parsed", !.parsed = parseCsv(csv.text)]
    /\ last' = [NoEvent EXCEPT !.kind = "parse"]
    /\ UNCHANGED <<appVars, cbVars, anVars, runs, hist, viewVars>>

\* escapeCsvField applied to one field
EscapeField ==
    /\ csv.kind = "field" /\ csv.stage = "input"
    /\ csv' = [csv EXCEPT !.stage = "exported",
                          !.text = escapeCsvField(csv.field)]
    /\ last' = [NoEvent EXCEPT !.kind = "export"]
    /\ UNCHANGED <<appVars, cbVars, anVars, runs, hist, viewVars>>

\* parseLine applied to the serialized field
ParseField ==
    /\ csv.kind = "field" /\ csv.stage = "exported"
    /\ csv' = [csv EXCEPT !.stage = "parsed", !.fields = parseLine(csv.text)]
    /\ last' = [NoEvent EXCEPT !.kind = "parse"]
    /\ UNCHANGED <<appVars, cbVars, anVars, runs, hist, viewVars>>

----------------------------------------------------------------------------
(* The parser and the column detection applied to texts and header lists *)

HeaderLines == { <<"h">>, <<"h", ",", "k">> }
DataLines ==
    { <<"1">>, <<"1", ",", "2">>, <<"1", ",", "2", ",", "3">>, <<>>, <<" ">>,
      <<"\"", "x", ",", "y", "\"", ",", "2">>, <<"\"", "x">>, <<"y", "\"">> }

\* The text of a file: its header line and its data lines
FileText(header, lines) == join(<<header>> \o lines, "\n")

HeaderNames ==
    { <<"i","d">>, <<"d","a","t","e">>,
      <<"C","u","s","t","o","m","e","r"," ","F","e","e","d","b","a","c","k">>,
      <<"T","E","X","T">>, <<"c","o","m","m","e","n","t","s">> }

Text(text) ==
    [kind |-> "text", stage |-> "input", headers |-> <<>>, rows |-> <<>>,
     field |-> EmptyStr, text |-> text, parsed |-> <<>>, fields |-> <<>>]
HeaderList(headers) ==
    [kind |-> "headers", stage |-> "input", headers |-> headers,
     rows |-> <<>>, field |-> EmptyStr, text |-> EmptyStr, parsed |-> <<>>,
     fields |-> <<>>]

Texts ==
    {Text(FileText(h, ls)) :
        h \in HeaderLines, ls \in SeqsUpTo(DataLines, MaxLines)}
HeaderLists == {HeaderList(hs) : hs \in SeqsUpTo(HeaderNames, MaxHeaders)}

\* parseCsv applied to the text of a file
ParseText ==
    /\ csv.kind = "text" /\ csv.stage = "input"
    /\ csv' = [csv EXCEPT !.stage = "parsed", !.parsed = parseCsv(csv.text)]
    /\ last' = [NoEvent EXCEPT !.kind = "parse"]
    /\ UNCHANGED <<appVars, cbVars, anVars, runs, hist, viewVars>>

\* The auto-detection of the response column applied to a header list
DetectColumn ==
    /\ csv.kind = "headers" /\ csv.stage = "input"
    /\ csv' = [csv EXCEPT !.stage = "detected",
                          !.field = detectColumn(csv.headers)]
    /\ last' = [NoEvent EXCEPT !.kind = "detect"]
    /\ UNCHANGED <<appVars, cbVars, anVars, runs, hist, viewVars>>

----------------------------------------------------------------------------
(* The specifications *)

\* The classification runs and the approval workflow: the response column
\* is the detected one, and the codebook page is reduced to deleting the
\* active codebook.
Next ==
    \/ \E p \in {"codebook", "analysis", "report"} : SetCurrentPage(p)
    \/ handleDeleteSelectedCodebook
    \/ CancelDelete
    \/ handleConfirmDelete
    \/ \E t \in UploadTexts : handleResponseFileUpload(t)
    \/ handleClearResults
    \/ handleCodeResponses
    \/ CloseConfirmModal
    \/ handleConfirmAppend
    \/ handleConfirmReplace
    \/ \E rid \in 1..MaxRuns, b \in Batches : RunSucceeds(rid, b)
    \/ \E rid \in 1..MaxRuns, f \in Failures : RunFails(rid, f)
    \/ \E i \in 1..MaxRecords : handleToggleApproval(i)
    \/ \E i \in 1..MaxRecords, v \in EditedNameInputs :
          handleFieldChange(i, "editedName", v)
    \/ \E i \in 1..MaxRecords, v \in EditedDescriptionInputs :
          handleFieldChange(i, "editedDescription", v)
    \/ CloseSuggestionModal
    \/ handleFinish

\* The page is loaded with a key and one codebook in local storage.
InitRuns == Init /\ apiKey /\ codebooks # << >>

Spec == InitRuns /\ [][Next]_vars

\* One visit to the Coding & Analysis page: uploads and runs of one page
\* instance, the dialog closed or finished as it was seeded.
PageUploads ==
    { <<"i","d",",","t","e","x","t","\n","1",",","o","k","\n","2",",","o","k">>,
      <<"i","d">> }

NextPage ==
    \/ \E t \in PageUploads : handleResponseFileUpload(t)
    \/ handleClearResults
    \/ handleCodeResponses
    \/ CloseConfirmModal
    \/ handleConfirmAppend
    \/ handleConfirmReplace
    \/ \E rid \in 1..MaxRuns, b \in Batches : RunSucceeds(rid, b)
    \/ \E rid \in 1..MaxRuns, f \in Failures : RunFails(rid, f)
    \/ CloseSuggestionModal
    \/ handleFinish

\* The page is reachable only with a key and a non-empty active codebook.
InitPage ==
    Loaded("analysis") /\ apiKey /\ Len(activeThemes) # 0 /\ csv = NoTable

SpecPage == InitPage /\ [][NextPage]_vars

\* The approval workflow on one visit to the page: runs that succeed, and
\* the dialog toggled, edited, closed and finished.
RunUploads ==
    { <<"i","d",",","t","e","x","t","\n","1",",","o","k","\n","2",",","o","k">> }

NextApproval ==
    \/ \E t \in RunUploads : handleResponseFileUpload(t)
    \/ handleCodeResponses
    \/ handleConfirmAppend
    \/ handleConfirmReplace
    \/ \E rid \in 1..MaxRuns, b \in Batches : RunSucceeds(rid, b)
    \/ \E i \in 1..MaxRecords : handleToggleApproval(i)
    \/ \E i \in 1..MaxRecords, v \in EditedNameInputs :
          handleFieldChange(i, "editedName", v)
    \/ \E i \in 1..MaxRecords, v \in EditedDescriptionInputs :
          handleFieldChange(i, "editedDescription", v)
    \/ CloseSuggestionModal
    \/ handleFinish

SpecApproval == InitPage /\ [][NextApproval]_vars

\* The Taxonomy Store: every operation of the codebook page, the API key
\* and navigation, from any stored state.
NextStore ==
    \/ \E p \in {"codebook", "analysis", "report"} : SetCurrentPage(p)
    \/ handleSave
    \/ handleClear
    \/ \E n \in CodebookNameInputs : handleCreateCodebook(n)
    \/ \E n \in DOMAIN codebooks : SelectCodebook(n)
    \/ handleDeleteSelectedCodebook
    \/ CancelDelete
    \/ handleConfirmDelete
    \/ \E n \in ThemeNameInputs, d \in ThemeDescInputs : handleAddTheme(n, d)
    \/ \E i \in 1..MaxThemes : handleRemoveTheme(i)
    \/ \E t \in ImportTexts : handleFileUpload(t)
    \/ \E r \in pendingReads : ImportLoaded(r)

SpecStore == Init /\ [][NextStore]_vars

\* Deleting a codebook after results, a report and a chat exist: codebooks
\* are created and selected, one response is classified, and on the report
\* page a report is typed and a question is asked.
DeleteNameInputs == { <<"Q">>, <<"a">> }
DeleteBatches == { <<ServiceRecord(<<"o","k">>, <<"A">>, NoSuggestion)>> }

NextDelete ==
    \/ \E p \in {"codebook", "analysis", "report"} : SetCurrentPage(p)
    \/ \E n \in DeleteNameInputs : handleCreateCodebook(n)
    \/ \E n \in DOMAIN codebooks : SelectCodebook(n)
    \/ handleDeleteSelectedCodebook
    \/ CancelDelete
    \/ handleConfirmDelete
    \/ \E t \in RunUploads : handleResponseFileUpload(t)
    \/ handleCodeResponses
    \/ CloseConfirmModal
    \/ \E rid \in 1..MaxRuns, b \in DeleteBatches : RunSucceeds(rid, b)
    \/ \E t \in ReportTexts \cup {EmptyStr} : EditReport(t)
    \/ \E q \in ChatInputs : handleSendChat(q)
    \/ \E i \in 1..MaxAsks, o \in AskOutcomes : ChatSettles(i, o)

SpecDelete == InitRuns /\ [][NextDelete]_vars

\* The review of the results: runs that succeed and are merged, the filter,
\* the cells edited, the results cleared and the active codebook deleted.
NextReview ==
    \/ \E p \in {"codebook", "analysis"} : SetCurrentPage(p)
    \/ handleDeleteSelectedCodebook
    \/ handleConfirmDelete
    \/ \E t \in RunUploads : handleResponseFileUpload(t)
    \/ handleClearResults
    \/ handleCodeResponses
    \/ handleConfirmAppend
    \/ handleConfirmReplace
    \/ \E rid \in 1..MaxRuns, b \in ReviewBatches : RunSucceeds(rid, b)
    \/ handleFinish
    \/ SetShowLowConfidenceOnly
    \/ \E i \in 1..MaxRecords, f \in {"themeName", "sentiment"},
          v \in {<<"A">>, Negative} :
          handleUpdateResult(i, f, v)

SpecReview == InitPage /\ [][NextReview]_vars

\* The export serializer and the parser as functions: a table or a field is
\* serialized, and the text is parsed.
NextCsv ==
    \/ ExportTable
    \/ ParseExported
    \/ EscapeField
    \/ ParseField

InitCsv ==
    /\ Loaded("analysis") /\ apiKey /\ Len(activeThemes) # 0
    /\ csv \in Tables \cup {Field(f) : f \in Fields}

SpecCsv == InitCsv /\ [][NextCsv]_vars

\* The parser and the column detection as functions of a file text and of
\* a header list.
NextParse ==
    \/ ParseText
    \/ DetectColumn

InitParse ==
    /\ Loaded("analysis") /\ apiKey /\ Len(activeThemes) # 0
    /\ csv \in Texts \cup HeaderLists

SpecParse == InitParse /\ [][NextParse]_vars

\* One visit to the codebook page: codebooks created and selected,
\* categories added, removed and imported.
NextCodebook ==
    \/ \E n \in CodebookNameInputs : handleCreateCodebook(n)
    \/ \E n \in DOMAIN codebooks : SelectCodebook(n)
    \/ \E n \in ThemeNameInputs, d \in ThemeDescInputs : handleAddTheme(n, d)
    \/ \E i \in 1..MaxThemes : handleRemoveTheme(i)
    \/ \E t \in ImportTexts : handleFileUpload(t)
    \/ \E r \in pendingReads : ImportLoaded(r)

SpecCodebook == Init /\ [][NextCodebook]_vars

----------------------------------------------------------------------------
(* Properties of the classification runs *)

InFlight == {rid \in 1..Len(runs) : runs[rid].pending}

\* Positions of the uploaded rows whose response-column value is text, and of
\* the returned records classified from text
RowsWith(data, column, text) ==
    {i \in 1..Len(data) : RowGet(data[i], column) = text}
RecordsWith(batch, text) ==
    {i \in 1..Len(batch) : batch[i].originalResponse = text}
Least(S) == CHOOSE i \in S : \A j \in S : i <= j
Greatest(S) == CHOOSE i \in S : \A j \in S : j <= i

\* C1: when two uploaded rows carry the same response text and the service
\* returns two records for that text, the first record is attached to the
\* first such row and the second record to the second such row.
C1_DuplicatesMatchedInOrder ==
    last.kind = "runDone" =>
        \A text \in {r.originalResponse : r \in Range(last.batch)} :
            LET rows == RowsWith(last.data, last.column, text)
                recs == RecordsWith(last.batch, text)
            IN  (Cardinality(rows) = 2 /\ Cardinality(recs) = 2) =>
                    /\ last.newResults[Least(recs)].rawData
                          = last.data[Least(rows)]
                    /\ last.newResults[Greatest(recs)].rawData
                          = last.data[Greatest(rows)]

\* A record carries a complete suggestion payload: a suggestedTheme whose
\* name and description are both non-empty
CompletePayload(rec) ==
    /\ rec.suggestedTheme.present
    /\ rec.suggestedTheme.name \notin {EmptyStr, Undefined}
    /\ rec.suggestedTheme.description \notin {EmptyStr, Undefined}

\* The suggestion queue and the immediately-finalized set of the run that
\* just completed: the lists runAnalysis computed, which are the queue state
\* of the page that issued the run while that page is mounted.
Queued(i) == \E r \in Range(last.suggestions) : r.idx = i
Finalized(i) == \E r \in Range(last.regularResults) : r.idx = i

\* C3: a returned record is placed in the suggestion queue iff it carries a
\* suggestedTheme with non-empty name and description, and no queued record
\* is also in the immediately-finalized set of the same run.
C3_SuggestionClassification ==
    last.kind = "runDone" =>
        /\ \A i \in 1..Len(last.batch) :
              /\ Queued(i) <=> CompletePayload(last.batch[i])
              /\ ~(Queued(i) /\ Finalized(i))
        /\ (last.live /\ Len(last.suggestions) > 0) =>
              /\ suggestedThemes = last.suggestions
              /\ pendingResults = last.regularResults
              /\ isSuggestionModalOpen
              /\ \A r \in Range(suggestedThemes) :
                    /\ r.rid = last.rid
                    /\ CompletePayload(last.batch[r.idx])
                    /\ r \notin Range(pendingResults)
                    /\ r \notin Range(results)

C3_Witness ==
    /\ last.kind = "runDone"
    /\ last.live
    /\ Len(last.suggestions) > 0
    /\ Len(last.regularResults) > 0
    /\ \E i \in 1..Len(last.batch) :
          last.batch[i].suggestedTheme.present
          /\ ~CompletePayload(last.batch[i])

\* C4: every returned record without a complete suggestion payload is in the
\* run's immediately-finalized set with the record's themeName, so every
\* returned record is either finalized or queued.
C4_IncompleteFinalized ==
    last.kind = "runDone" =>
        \A i \in 1..Len(last.batch) :
            /\ ~CompletePayload(last.batch[i]) =>
                  \E r \in Range(last.regularResults) :
                      r.idx = i /\ r.themeName = last.batch[i].themeName
            /\ Queued(i) \/ Finalized(i)

\* C8: at most one classification call is pending at any time.
C8_AtMostOneInFlight == Cardinality(InFlight) <= 1

C13_RawDataHasColumn ==
    \A r \in Range(results) :
        /\ r.rawData # UndefinedRow
        /\ RowHas(r.rawData, r.responseColumn)

CallIssued ==
    /\ Len(runs') = Len(runs) + 1
    /\ runs'[Len(runs')].pending

\* C15: with a non-empty ResultSet, Code Responses only opens the
\* confirmation dialog and a call is issued only by Append or Replace, in the
\* chosen mode; closing the dialog issues no call and changes no other state;
\* with an empty ResultSet the run starts at once in replace mode.
C15_ConfirmBeforeRun ==
    [][/\ (last'.kind = "code" /\ Len(results) > 0) =>
             (runs' = runs /\ isConfirmModalOpen' /\ isLoading' = isLoading)
       /\ (last'.kind = "code" /\ Len(results) = 0) =>
             (CallIssued /\ runs'[Len(runs')].mode = "replace"
                         /\ ~isConfirmModalOpen')
       /\ last'.kind = "closeConfirm" =>
             /\ runs' = runs
             /\ ~isConfirmModalOpen'
             /\ UNCHANGED <<appVars, cbVars, isLoading, error, dataVars,
                            isSuggestionModalOpen, queueVars>>
       /\ (CallIssued /\ Len(results) > 0) =>
             /\ isConfirmModalOpen
             /\ last'.kind = "confirm"
             /\ runs'[Len(runs')].mode = last'.mode
             /\ last'.mode \in {"append", "replace"}]_vars

C15_Witness ==
    /\ last.kind = "confirm"
    /\ last.mode = "append"
    /\ Len(results) > 0
    /\ InFlight # {}

----------------------------------------------------------------------------
(* Properties of the approval workflow *)

\* An approval record is approved with non-blank name and description
ApprovedNonBlank(s) ==
    /\ s.isApproved
    /\ \E i \in 1..Len(s.editedName) : ~IsSpace(s.editedName[i])
    /\ \E i \in 1..Len(s.editedDescription) : ~IsSpace(s.editedDescription[i])

SameIgnoringCase(a, b) == toLowerCase(trim(a)) = toLowerCase(trim(b))

\* The approved names are pairwise distinct ignoring case and none is the
\* name of a category already in the active taxonomy
FreshNames(records, themes) ==
    LET approved == {i \in 1..Len(records) : ApprovedNonBlank(records[i])}
    IN  /\ \A i, j \in approved :
              i # j => ~SameIgnoringCase(records[i].editedName,
                                         records[j].editedName)
        /\ \A i \in approved : \A t \in Range(themes) :
              ~SameIgnoringCase(records[i].editedName, t.name)

NumApproved(records) ==
    Cardinality({i \in 1..Len(records) : ApprovedNonBlank(records[i])})

Landed(s) ==
    {j \in 1..Len(results) :
        results[j].rid = s.result.rid /\ results[j].idx = s.result.idx}

\* C5: finishing the dialog with n records of which k are approved with
\* non-blank, fresh names adds exactly k categories to the active taxonomy
\* and lands the results of all n records in the ResultSet, each
\* non-approved one as 'Uncategorized'.
C5_SuggestionAtomicity ==
    (last.kind = "finish" /\ FreshNames(last.records, last.prevThemes)) =>
        /\ Len(activeThemes)
              = Len(last.prevThemes) + NumApproved(last.records)
        /\ SubSeq(activeThemes, 1, Len(last.prevThemes)) = last.prevThemes
        /\ \A i \in 1..Len(last.records) :
              ApprovedNonBlank(last.records[i]) =>
                  \E j \in (Len(last.prevThemes) + 1)..Len(activeThemes) :
                      activeThemes[j].name = trim(last.records[i].editedName)
        /\ \A i \in 1..Len(last.records) :
              /\ Cardinality(Landed(last.records[i])) = 1
              /\ ~last.records[i].isApproved =>
                    \A j \in Landed(last.records[i]) :
                        results[j].themeName = Uncategorized

C5_Witness ==
    /\ last.kind = "finish"
    /\ FreshNames(last.records, last.prevThemes)
    /\ Len(last.records) >= 2
    /\ NumApproved(last.records) >= 1
    /\ NumApproved(last.records) < Len(last.records)

Ids(rs) == [i \in 1..Len(rs) |-> <<rs[i].rid, rs[i].idx>>]

\* The mode chosen when the run whose suggestions opened the dialog was
\* started
StartMode(rid) == runs[rid].mode

\* C6: in append mode the ResultSet after a run's merge is the previous
\* ResultSet followed by the run's results, in replace mode exactly the run's
\* results, at run completion without suggestions and at approval finish.
C6_AppendVsReplace ==
    /\ (last.kind = "runDone" /\ Len(last.suggestions) = 0) =>
          /\ last.mode = "append" =>
                results = last.prevResults \o last.regularResults
          /\ last.mode = "replace" =>
                results = last.regularResults
    /\ last.kind = "finish" =>
          LET rid == last.suggestions[1].rid
              n == Len(last.pending) + Len(last.records)
              old == IF StartMode(rid) = "append"
                     THEN Len(last.prevResults) ELSE 0
          IN  /\ Len(results) = old + n
              /\ SubSeq(results, 1, old) = SubSeq(last.prevResults, 1, old)
              /\ SubSeq(results, old + 1, old + Len(last.pending))
                    = last.pending
              /\ Ids(SubSeq(results, old + Len(last.pending) + 1, old + n))
                    = Ids(last.suggestions)

C6_Witness ==
    /\ last.kind = "finish"
    /\ StartMode(last.suggestions[1].rid) = "append"
    /\ Len(last.prevResults) > 0

\* C7: the mode captured at run start is the mode of the merge at finish,
\* which merges the held regular results and the suggestion results of that
\* one run together.
C7_ModeCapturedOnce ==
    /\ isSuggestionModalOpen =>
          /\ Len(suggestedThemes) > 0
          /\ \A r \in Range(suggestedThemes) \cup Range(pendingResults) :
                r.rid = suggestedThemes[1].rid
          /\ analysisMode = StartMode(suggestedThemes[1].rid)
    /\ last.kind = "finish" =>
          LET rid == last.suggestions[1].rid
          IN  /\ last.mode = StartMode(rid)
              /\ \A r \in Range(last.pending) : r.rid = rid
              /\ \A r \in Range(results) :
                    r.rid = rid \/ (StartMode(rid) = "append"
                                    /\ r \in Range(last.prevResults))
              /\ \A r \in Range(last.pending) : r \in Range(results)
              /\ \A s \in Range(last.records) : Landed(s) # {}

C7_Witness ==
    /\ last.kind = "finish"
    /\ Len(last.pending) > 0
    /\ Len(last.records) > 0

\* C10: toggling, editing and closing the dialog change neither the codebooks
\* nor the ResultSet, and nothing of a run whose dialog was closed without
\* finish is ever committed.
C10_NothingCommitted ==
    \A rid \in abandoned :
        /\ \A r \in Range(results) : r.rid # rid
        /\ \A b \in DOMAIN codebooks :
              \A t \in Range(codebooks[b]) : t.src # rid

C10_DialogFrame ==
    [][(last'.kind \in {"toggle", "edit", "closeDialog"})
          => (codebooks' = codebooks /\ results' = results)]_vars

C10_NoCommitBeforeFinish == []C10_NothingCommitted /\ C10_DialogFrame

C10_Witness ==
    /\ abandoned # {}
    /\ last.kind = "finish"
    /\ Len(results) > 0

\* The approval records of a sequence that are approved with non-blank fields
Accepted(records) ==
    {i \in 1..Len(records) : ApprovedNonBlank(records[i])}

\* C11: on finish an approved record with non-blank name and description
\* yields a result named by the trimmed edited name and one category
\* candidate with the trimmed name and description; every other record
\* yields an 'Uncategorized' result and no candidate.
C11_FinishPerRecord ==
    last.kind = "finish" =>
        LET acc == Accepted(last.records)
        IN  /\ Len(last.newThemes) = Cardinality(acc)
            /\ \A i \in 1..Len(last.records) :
                  LET s == last.records[i]
                      before == Cardinality({j \in acc : j < i})
                  IN  /\ \A j \in Landed(s) :
                            results[j].themeName =
                                IF i \in acc THEN trim(s.editedName)
                                ELSE Uncategorized
                      /\ Landed(s) # {}
                      /\ i \in acc =>
                            /\ last.newThemes[before + 1].name
                                  = trim(s.editedName)
                            /\ last.newThemes[before + 1].description
                                  = trim(s.editedDescription)

C11_Witness ==
    /\ last.kind = "finish"
    /\ \E i \in Accepted(last.records) :
          last.records[i].editedName # trim(last.records[i].editedName)

\* C18: the dialog is open only with a non-empty suggestion queue; a run
\* opens it exactly when it returns suggestions, with one approval record per
\* suggestion, approved and pre-filled with the proposed name and
\* description; after finish the queue, the held results and the mode are
\* cleared and the dialog is closed, and no record is in the ResultSet twice.
C18_ApprovalWorkflow ==
    /\ isSuggestionModalOpen =>
          /\ Len(suggestedThemes) > 0
          /\ Len(processedSuggestions) = Len(suggestedThemes)
          /\ \A i \in 1..Len(suggestedThemes) :
                processedSuggestions[i].result = suggestedThemes[i]
    /\ (last.kind = "runDone" /\ last.live) =>
          /\ isSuggestionModalOpen <=> Len(last.suggestions) > 0
          /\ Len(last.suggestions) > 0 =>
                \A i \in 1..Len(last.suggestions) :
                    LET rec == last.batch[last.suggestions[i].idx]
                        s == processedSuggestions[i]
                    IN  /\ s.result = last.suggestions[i]
                        /\ s.isApproved
                        /\ s.editedName = rec.suggestedTheme.name
                        /\ s.editedDescription = rec.suggestedTheme.description
    /\ last.kind = "finish" =>
          /\ suggestedThemes = <<>>
          /\ pendingResults = <<>>
          /\ analysisMode = NullMode
          /\ ~isSuggestionModalOpen
    /\ \A i, j \in 1..Len(results) :
          i # j => Ids(results)[i] # Ids(results)[j]

C18_Witness ==
    /\ last.kind = "runDone"
    /\ isSuggestionModalOpen
    /\ Len(processedSuggestions) >= 2

\* C17: the ResultSet is never reordered: a step leaves it as it is, or
\* keeps it as the prefix of the new one (append), or changes the category
\* or the sentiment of one entry in place, or replaces it wholesale (none of
\* its entries remains: replace-mode merge, clear, codebook deletion).
C17_NeverReordered ==
    [][ \/ results' = results
        \/ /\ Len(results') > Len(results)
           /\ SubSeq(results', 1, Len(results)) = results
        \/ /\ Len(results') = Len(results)
           /\ \E i \in 1..Len(results) :
                 /\ \A j \in 1..Len(results) \ {i} : results'[j] = results[j]
                 /\ [results'[i] EXCEPT !.themeName = results[i].themeName,
                                        !.sentiment = results[i].sentiment]
                       = results[i]
        \/ Range(Ids(results')) \cap Range(Ids(results)) = {} ]_vars

C17_Witness ==
    /\ last.kind = "update"
    /\ showLowConfidenceOnly
    /\ last.index # last.shown
    /\ Len(results) = Len(last.prevResults)
    /\ results # last.prevResults

----------------------------------------------------------------------------
(* Properties of the Taxonomy Store *)

\* The step is handleConfirmDelete deleting the active codebook
DeletesActive == last'.kind = "delete" /\ activeCodebook # EmptyStr

\* The deletion removes the active codebook, leaves the others as they are
\* and clears the ResultSet, the report content and the chat history
Cascade ==
    /\ DOMAIN codebooks' = DOMAIN codebooks \ {activeCodebook}
    /\ \A n \in DOMAIN codebooks' : codebooks'[n] = codebooks[n]
    /\ results' = <<>>
    /\ reportContent' = EmptyStr
    /\ chatHistory' = <<>>

\* C12 as stated: a deletion of the active codebook cascades, and the active
\* codebook becomes the alphabetically first remaining name (no remaining
\* name comes before it in dictionary order, letter case ignored), or none
\* when no codebook remains.
C12_AlphabeticallyFirst ==
    [][ DeletesActive =>
          /\ Cascade
          /\ IF DOMAIN codebooks' = {}
             THEN activeCodebook' = EmptyStr
             ELSE /\ activeCodebook' \in DOMAIN codebooks'
                  /\ \A m \in DOMAIN codebooks' :
                        ~StrLess(toLowerCase(m), toLowerCase(activeCodebook'))
      ]_vars

\* C12 amended: a deletion of the active codebook cascades, and the active
\* codebook becomes the remaining name that is first in the order of
\* Array.prototype.sort (UTF-16 code units, so every upper-case letter comes
\* before every lower-case letter), or none when no codebook remains.
C12_CascadeDelete ==
    [][ DeletesActive =>
          /\ Cascade
          /\ IF DOMAIN codebooks' = {}
             THEN activeCodebook' = EmptyStr
             ELSE /\ activeCodebook' \in DOMAIN codebooks'
                  /\ \A m \in DOMAIN codebooks' \ {activeCodebook'} :
                        StrLess(activeCodebook', m)
      ]_vars

C12_Witness ==
    /\ last.kind = "delete"
    /\ last.book # EmptyStr
    /\ Len(last.prevResults) > 0
    /\ last.prevReport # EmptyStr
    /\ Len(last.prevChat) > 0
    /\ \E m \in DOMAIN codebooks :
          StrLess(toLowerCase(m), toLowerCase(activeCodebook))

\* C2: no codebook contains two categories whose names are equal under
\* case-insensitive comparison.
C2_UniqueCategoryNames ==
    \A b \in DOMAIN codebooks :
        \A i, j \in 1..Len(codebooks[b]) :
            i # j => toLowerCase(codebooks[b][i].name)
                        # toLowerCase(codebooks[b][j].name)

\* C16: creating a codebook whose trimmed name is already in the store, and
\* adding a category whose name equals, ignoring case, the name of a
\* category of the active codebook, each leave the codebooks, their category
\* sequences and the active codebook unchanged.
C16_DuplicatesAreNoOps ==
    [][ /\ (last'.kind = "create" /\ last'.name \in DOMAIN codebooks) =>
              UNCHANGED <<codebooks, activeCodebook>>
        /\ ( /\ last'.kind = "addTheme"
             /\ \E i \in 1..Len(activeThemes) :
                   toLowerCase(activeThemes[i].name)
                      = toLowerCase(last'.name) ) =>
              UNCHANGED <<codebooks, activeCodebook>> ]_vars

C16_Witness ==
    /\ last.kind = "addTheme"
    /\ \E i \in 1..Len(last.prevThemes) :
          /\ last.prevThemes[i].name # last.name
          /\ toLowerCase(last.prevThemes[i].name) = toLowerCase(last.name)
    /\ cbError # Null

----------------------------------------------------------------------------
(* Properties of the export serializer and the parser *)

\* The rows a parse of the table's text should return: one object per row,
\* with the headers as keys in order
RowObjects(headers, rows) ==
    [i \in 1..Len(rows) |->
        [j \in 1..Len(headers) |-> [k |-> headers[j], v |-> rows[i][j]]]]

\* C19: parsing the text the export serializer produces for a header list
\* and rows of arbitrary strings (commas, double quotes and embedded
\* newlines included) yields the same headers and the same rows in the same
\* order.
C19_RoundTrip ==
    (csv.kind = "table" /\ csv.stage = "parsed") =>
        /\ csv.parsed.ok
        /\ csv.parsed.headers = csv.headers
        /\ csv.parsed.data = RowObjects(csv.headers, csv.rows)

\* C20: the serializer wraps a field in double quotes, with every quote in
\* it doubled, exactly when the field contains a comma, a double quote or a
\* newline, and emits it bare otherwise; the line parser applied to the
\* serialized form of a field without newlines returns the field, as a
\* single field.
C20_QuoteEscaping ==
    csv.kind = "field" =>
        /\ csv.stage # "input" =>
              IF \E i \in 1..Len(csv.field) : csv.field[i] \in {",", "\"", "\n"}
              THEN csv.text = <<"\"">> \o doubleQuotes(csv.field) \o <<"\"">>
              ELSE csv.text = csv.field
        /\ ( /\ csv.stage = "parsed"
             /\ \A i \in 1..Len(csv.field) : csv.field[i] # "\n" ) =>
              csv.fields = <<csv.field>>

C20_Witness ==
    /\ csv.kind = "field"
    /\ csv.stage = "parsed"
    /\ csv.field = QuotedExample
    /\ csv.text = <<"\"","H","e"," ","s","a","i","d"," ","\"","\"","h","i",
                    "\"","\"",","," ","o","k","\"">>

\* C25: a bulk import appends to the active codebook, in file order, the
\* imported categories whose name is not, ignoring case, the name of a
\* category already in the codebook; the categories of before the import
\* stay as a prefix in their order.
C25_ImportAppends ==
    last.kind = "import" =>
        LET before == last.prevThemes
            Known(t) == \E i \in 1..Len(before) :
                           toLowerCase(before[i].name) = toLowerCase(t.name)
            Fresh(t) == ~Known(t)
        IN  /\ last.book = activeCodebook
            /\ activeThemes = before \o SelectSeq(last.newThemes, Fresh)

\* C26: the active codebook name is empty or the key of an existing
\* codebook, and it is empty only when no codebook exists.
C26_ActivePointer ==
    /\ activeCodebook = EmptyStr \/ activeCodebook \in DOMAIN codebooks
    /\ activeCodebook = EmptyStr => DOMAIN codebooks = {}

----------------------------------------------------------------------------
(* Properties of runs that settle after the page or the data changed *)

\* C27: when the codebook a run classifies against is deleted while the run
\* is in flight, the ResultSet is still empty after the response of the run
\* has arrived.  (With no codebook left, the codebook of every run that
\* settles has been deleted.)
C27_DeletionNotUndone ==
    (last.kind = "runDone" /\ DOMAIN codebooks = {}) => results = <<>>

\* C28: a run that succeeds clears only the dataset it analysed: rows,
\* headers and response column uploaded while the run was in flight are
\* still there after the run, and the results of the run are attached only
\* to rows of the dataset that was uploaded when the run started.
C28_ClearsOwnDatasetOnly ==
    [][ \A rid \in 1..Len(runs) :
          ( /\ runs[rid].pending /\ runs[rid].live
            /\ last'.kind = "runDone" /\ last'.rid = rid
            /\ uploadedData # <<>>
            /\ uploadedData # runs[rid].uploadedData ) =>
              /\ dataVars' = dataVars
              /\ \A i \in 1..Len(last'.newResults) :
                    last'.newResults[i].rawData
                       \in Range(runs[rid].uploadedData) ]_vars

\* C29: after the approval workflow has finished, every result made from an
\* approved suggestion has a themeName that is exactly the name of a category
\* of the active codebook.
C29_ApprovedNameInCodebook ==
    last.kind = "finish" =>
        LET n == Len(last.records)
            base == Len(results) - n
            Approved(s) == /\ s.isApproved
                           /\ trim(s.editedName) # EmptyStr
                           /\ trim(s.editedDescription) # EmptyStr
        IN  \A i \in 1..n :
               Approved(last.records[i]) =>
                  \E j \in 1..Len(activeThemes) :
                     activeThemes[j].name = results[base + i].themeName

\* C30: the busy flag is set for the whole time the service call of a run
\* is pending (and every run ends with the flag cleared, after one call).
\* The flag is the one of the Coding & Analysis page on display.
C30_BusyWhilePending ==
    (currentPage = "analysis" /\ InFlight # {}) => isLoading

----------------------------------------------------------------------------
(* Properties of the parser and the column detection *)

\* The lines of a text when a newline inside a double-quoted field does not
\* end the line
RECURSIVE logicalLinesFrom(_, _, _, _, _)
logicalLinesFrom(s, i, cur, acc, inQuotes) ==
    IF i > Len(s) THEN Append(acc, cur)
    ELSE IF s[i] = "\"" 
         THEN logicalLinesFrom(s, i + 1, Append(cur, s[i]), acc, ~inQuotes)
    ELSE IF s[i] = "\n" /\ ~inQuotes
         THEN logicalLinesFrom(s, i + 1, <<>>, Append(acc, cur), FALSE)
    ELSE logicalLinesFrom(s, i + 1, Append(cur, s[i]), acc, inQuotes)

LogicalLines(s) == logicalLinesFrom(s, 1, <<>>, <<>>, FALSE)

\* A text whose double quotes enclose whole fields: an opening quote starts
\* a field, a closing quote ends it, and the last quoted field is closed
RECURSIVE wellQuotedFrom(_, _, _)
wellQuotedFrom(s, i, inQuotes) ==
    IF i > Len(s) THEN ~inQuotes
    ELSE IF s[i] # "\"" THEN wellQuotedFrom(s, i + 1, inQuotes)
    ELSE IF ~inQuotes
         THEN /\ (i = 1 \/ s[i - 1] \in {",", "\n"})
              /\ wellQuotedFrom(s, i + 1, TRUE)
    ELSE IF i < Len(s) /\ s[i + 1] = "\""
         THEN wellQuotedFrom(s, i + 2, TRUE)
    ELSE /\ (i = Len(s) \/ s[i + 1] \in {",", "\n"})
         /\ wellQuotedFrom(s, i + 1, FALSE)

WellQuoted(s) == wellQuotedFrom(s, 1, FALSE)

NonBlankLines(lines) ==
    LET NonBlank(line) == trim(line) # <<>>
    IN  SelectSeq(lines, NonBlank)

\* The row made of a line's values: the headers in order, each with the
\* value at its position, or the empty string past the last value
PositionalRow(headers, values) ==
    [j \in 1..Len(headers) |->
        [k |-> headers[j],
         v |-> IF j <= Len(values) THEN values[j] ELSE EmptyStr]]

\* C21: when a double-quoted field of a data line contains a newline, the
\* parser keeps the newline in the field's value and does not end the row
\* there: there is one row per logical record.
C21_QuotedNewlineKept ==
    ( /\ csv.kind = "text" /\ csv.stage = "parsed"
      /\ WellQuoted(trim(csv.text))
      /\ LogicalLines(trim(csv.text)) # splitLines(trim(csv.text))
      /\ Len(LogicalLines(trim(csv.text))) >= 2 ) =>
        LET records == NonBlankLines(Tail(LogicalLines(trim(csv.text))))
        IN  /\ csv.parsed.ok
            /\ Len(csv.parsed.data) = Len(records)
            /\ \A i \in 1..Len(records) :
                  csv.parsed.data[i]
                     = PositionalRow(csv.parsed.headers, parseLine(records[i]))

\* C22: a text with no data line after its header line makes the parse
\* fail, and after a failed parse the uploaded rows, the header list and the
\* selected response column are empty and an error is set.
C22_ParseFailureDiscards ==
    last.kind = "upload" =>
        /\ Len(splitLines(trim(last.text))) < 2 => error # Null
        /\ error # Null =>
              /\ uploadedData = <<>>
              /\ dataHeaders = <<>>
              /\ responseColumn = EmptyStr

C22_Witness ==
    /\ last.kind = "upload"
    /\ Len(splitLines(trim(last.text))) < 2
    /\ last.prevData[1] # <<>>
    /\ error # Null
    /\ uploadedData = <<>>

\* C23: every parsed row has exactly the columns of the header line, with
\* the values of its line by position and the empty string for each column
\* past the line's last value; blank lines between data lines give no row.
C23_RowConstruction ==
    (csv.kind = "text" /\ csv.stage = "parsed" /\ csv.parsed.ok) =>
        LET lines == splitLines(trim(csv.text))
            records == NonBlankLines(Tail(lines))
        IN  /\ csv.parsed.headers = parseLine(lines[1])
            /\ Len(csv.parsed.data) = Len(records)
            /\ \A i \in 1..Len(records) :
                  csv.parsed.data[i]
                     = PositionalRow(csv.parsed.headers, parseLine(records[i]))

C23_Witness ==
    /\ csv.kind = "text" /\ csv.stage = "parsed" /\ csv.parsed.ok
    /\ Len(csv.parsed.headers) = 2
    /\ Len(csv.parsed.data) = 2
    /\ Len(splitLines(trim(csv.text))) = 4
    /\ csv.parsed.data[1][2].v = EmptyStr
    /\ csv.parsed.data[2][2].v # EmptyStr

\* C24: the detected column is the first header, in the order of the header
\* list, whose lower-cased text contains response, comment, feedback,
\* suggestion or text; no column is detected when no header contains one.
C24_ColumnDetection ==
    (csv.kind = "headers" /\ csv.stage = "detected") =>
        LET Words == { <<"r","e","s","p","o","n","s","e">>,
                       <<"c","o","m","m","e","n","t">>,
                       <<"f","e","e","d","b","a","c","k">>,
                       <<"s","u","g","g","e","s","t","i","o","n">>,
                       <<"t","e","x","t">> }
            Hit(h) == \E w \in Words : includes(toLowerCase(h), w)
            hits == {i \in 1..Len(csv.headers) : Hit(csv.headers[i])}
        IN  IF hits = {} THEN csv.field = EmptyStr
            ELSE \E i \in hits :
                    /\ \A j \in hits : i <= j
                    /\ csv.field = csv.headers[i]

C24_Witness ==
    /\ csv.kind = "headers" /\ csv.stage = "detected"
    /\ csv.headers = << <<"i","d">>,
                        <<"C","u","s","t","o","m","e","r"," ",
                          "F","e","e","d","b","a","c","k">>,
                        <<"d","a","t","e">> >>
    /\ csv.field = <<"C","u","s","t","o","m","e","r"," ",
                     "F","e","e","d","b","a","c","k">>

====
